---- MODULE Spec2Model ----
(***************************************************************************)
(* A model of pulpsolv.py: the unit -> solvable attribute conversions, the *)
(* unit/solvable registry (UnitSolvableMapping), Solver.load and the two   *)
(* dependency-closure walks (Solver.optimist, Solver.brainchild).          *)
(*                                                                         *)
(* Text values are sequences of code points (after utf-8 encoding:         *)
(* sequences of bytes), so that formatting and encoding are computed, not  *)
(* assumed.  Python's None is the one-element sequence <<-1>>.             *)
(***************************************************************************)
EXTENDS Integers, Sequences, FiniteSets, TLC

VARIABLES
    unit,        \* the unit handed to an attribute conversion
    solvable,    \* the solvable the conversion writes: [attrs, deps]
    step,        \* the conversion that has run: [op, attr, key, ok]
    pool,        \* solv.Pool: [solvables, repos, installed, ready]
    mapping,     \* UnitSolvableMapping.mapping: one dict, both directions
    created,     \* history: per solvable id, the unit id and whether the factory returned
    loaded,      \* Solver._loaded
    target_repo, \* Solver.target_repo: a repo name or NoRepo
    db,          \* the units rpm_units_query yields per repository
    last,        \* history: the last call, its arguments and how it ended
    graph,       \* the loaded pool as the walks see it: [name, requires, provides]
    cache,       \* the set that is optimist's default cache argument
    own,         \* the set a caller passed to optimist as cache
    stack,       \* the optimist generators that are running, innermost last
    out,         \* what the outermost optimist has yielded so far
    bc,          \* brainchild's locals: [done, candq]
    call         \* the walk that is running or has ended:
                 \* [op, status, own, arg, seeds]

convVars == <<unit, solvable, step>>
loadVars == <<pool, mapping, created, loaded, target_repo, db, last>>

walkVars == <<graph, cache, own, stack, out, bc, call>>

vars == <<unit, solvable, step, pool, mapping, created, loaded, target_repo, db, last,
          graph, cache, own, stack, out, bc, call>>

----------------------------------------------------------------------------
(* Text.                                                                   *)

None == <<-1>>

sEmpty == <<>>
s0 == <<48>>
s1 == <<49>>
s1_0 == <<49, 46, 48>>
s2 == <<50>>
sFoo == <<102, 111, 111>>
sBar == <<98, 97, 114>>
sRich == <<40, 102, 111, 111, 41>>

\* bool(value) of Python for None and text
Truthy(v) == v # None /\ v # <<>>

RECURSIVE Utf8Encode(_)
\* unicode.encode('utf-8') for code points below 0x800
Utf8Encode(s) ==
    IF s = <<>> THEN <<>>
    ELSE LET c == Head(s)
             b == IF c < 128 THEN <<c>>
                  ELSE <<192 + (c \div 64), 128 + (c % 64)>>
         IN b \o Utf8Encode(Tail(s))

\* str.startswith('(')
StartsWithParen(s) == Len(s) > 0 /\ s[1] = 40

----------------------------------------------------------------------------
(* Attribute conversions.                                                  *)

\* attr_conversion(attr_name, default)(): dict.get or getattr with default
AttrConversion(u, attr_name, default) ==
    IF u.isdict
    THEN IF attr_name \in DOMAIN u.attrs THEN u.attrs[attr_name] ELSE default
    ELSE IF attr_name \in DOMAIN u.attrs THEN u.attrs[attr_name] ELSE default

\* utf8_conversion: encode unless None
Utf8Conversion(ret) == IF ret # None THEN Utf8Encode(ret) ELSE ret

\* EvrFormat with the release tested against None instead of for truth
EvrFormatReleaseNotNone(epoch, version, release) ==
    IF version = None THEN None
    ELSE (IF Truthy(epoch) THEN epoch \o <<58>> ELSE <<>>)
         \o version
         \o (IF release # None THEN <<45>> \o release ELSE <<>>)

\* the body of evr_unit_conversion: '{}{}{}'.format(...)
EvrFormat(epoch, version, release) ==
    IF version = None THEN None
    ELSE (IF Truthy(epoch) THEN epoch \o <<58>> ELSE <<>>)
         \o version
         \o (IF Truthy(release) THEN <<45>> \o release ELSE <<>>)

\* evr_unit_conversion: multiattr(epoch, version, release) then utf-8
EvrUnitConversion(u) ==
    Utf8Conversion(EvrFormat(AttrConversion(u, "epoch", None),
                             AttrConversion(u, "version", None),
                             AttrConversion(u, "release", None)))

\* setattr(solvable, attr_name, ret)
SetAttr(s, attr_name, ret) ==
    [s EXCEPT !.attrs = [a \in DOMAIN s.attrs \cup {attr_name} |->
                            IF a = attr_name THEN ret ELSE s.attrs[a]]]

\* setattr_conversion(attr_name, set_none): skip a None unless set_none
SetattrConversion(s, attr_name, ret, set_none) ==
    IF ~set_none /\ ret = None THEN s ELSE SetAttr(s, attr_name, ret)

\* evr_attribute = setattr_conversion('evr')(evr_unit_conversion)
EvrAttribute(s, u) == SetattrConversion(s, "evr", EvrUnitConversion(u), FALSE)

\* solv_repo.add_solvable(): a solvable with nothing set on it
NewSolvable == [attrs |-> [a \in {} |-> <<>>], deps |-> [k \in {} |-> <<>>]]

----------------------------------------------------------------------------
(* Dependency conversions.                                                 *)

fEQ == <<69, 81>>
fLT == <<76, 84>>
fGT == <<71, 84>>
fLE == <<76, 69>>
fGE == <<71, 69>>
fAND == <<65, 78, 68>>
fXX == <<88, 88>>

\* the names solv defines as REL_<flags>, beyond the five spelled out
SolvRelNames == {fAND}

\* the relation flags of a dependency: a set of bits (| is union);
\* <<FALSE, {}>> when getattr(solv, 'REL_...') raises AttributeError
RelFlags(unit_flags) ==
    IF unit_flags = fEQ THEN <<TRUE, {"EQ"}>>
    ELSE IF unit_flags = fLT THEN <<TRUE, {"LT"}>>
    ELSE IF unit_flags = fGT THEN <<TRUE, {"GT"}>>
    ELSE IF unit_flags = fLE THEN <<TRUE, {"EQ"} \cup {"LT"}>>
    ELSE IF unit_flags = fGE THEN <<TRUE, {"EQ"} \cup {"GT"}>>
    ELSE IF unit_flags \in SolvRelNames THEN <<TRUE, {"AND"}>>
    ELSE <<FALSE, {}>>

NoKey == "None"

\* the attributes solv defines as SOLVABLE_<ATTR_NAME>
SolvableSlots ==
    {"requires", "conflicts", "provides", "obsoletes",
     "recommends", "suggests", "supplements", "enhances"}

\* dependency_key or getattr(solv, 'SOLVABLE_{}'.format(attr_name.upper())):
\* <<FALSE, _>> when the getattr raises AttributeError
KeyName(attr_name, dependency_key) ==
    IF dependency_key # NoKey THEN <<TRUE, dependency_key>>
    ELSE IF attr_name \in SolvableSlots THEN <<TRUE, attr_name>>
    ELSE <<FALSE, NoKey>>

\* pool.Dep(name), dep.Rel(flags, pool.Dep(evr)), pool.parserpmrichdep(name)
Dep(name) == [kind |-> "name", name |-> name, rel |-> {}, evr |-> None]
Rel(dep, rel_flags, evr) == [dep EXCEPT !.kind = "rel", !.rel = rel_flags, !.evr = evr]
RichDep(name) == [kind |-> "rich", name |-> name, rel |-> {}, evr |-> None]

\* solvable.add_deparray(keyname, dep)
AddDeparray(s, keyname, dep) ==
    [s EXCEPT !.deps = [k \in DOMAIN s.deps \cup {keyname} |->
                           IF k \in DOMAIN s.deps
                           THEN IF k = keyname THEN Append(s.deps[k], dep) ELSE s.deps[k]
                           ELSE <<dep>>]]

\* rpm_dependency_conversion(solvable, record, attr_name, dependency_key):
\* [s: the solvable afterwards, ok: FALSE when it raised]
RpmDependencyConversion(s, rec, attr_name, dependency_key) ==
    LET unit_name == Utf8Conversion(AttrConversion(rec, "name", None))
        unit_flags == AttrConversion(rec, "flags", None)
        unit_evr == EvrUnitConversion(rec)
        keyname == KeyName(attr_name, dependency_key)
    IN  IF ~keyname[1] \/ unit_name = None THEN [s |-> s, ok |-> FALSE]
        ELSE IF StartsWithParen(unit_name)
        THEN \* parsed, and add_deparray is in the other branch
             [s |-> s, ok |-> TRUE]
        ELSE IF Truthy(unit_flags)
        THEN LET rel_flags == RelFlags(unit_flags)
             IN  IF ~rel_flags[1] THEN [s |-> s, ok |-> FALSE]
                 ELSE [s |-> AddDeparray(s, keyname[2],
                                         Rel(Dep(unit_name), rel_flags[2], unit_evr)),
                       ok |-> TRUE]
        ELSE [s |-> AddDeparray(s, keyname[2], Dep(unit_name)), ok |-> TRUE]

RECURSIVE RepeatedDependencyConversion(_, _, _, _)
RECURSIVE RepeatedNext(_, _, _, _)
\* repeated_attr_conversion: the conversion on each record in turn
RepeatedDependencyConversion(s, records, attr_name, dependency_key) ==
    IF records = <<>> THEN [s |-> s, ok |-> TRUE]
    ELSE RepeatedNext(RpmDependencyConversion(s, Head(records), attr_name,
                                              dependency_key),
                      Tail(records), attr_name, dependency_key)

\* the for loop after one record's conversion r: a raise ends the loop and
\* leaves what was added
RepeatedNext(r, records, attr_name, dependency_key) ==
    IF ~r.ok THEN r
    ELSE RepeatedDependencyConversion(r.s, records, attr_name, dependency_key)

\* rpm_dependency_attribute_factory(attribute_name, dependency_key)
RpmDependencyAttributeFactory(s, u, attribute_name, dependency_key) ==
    RepeatedDependencyConversion(s, AttrConversion(u, attribute_name, <<>>),
                                 attribute_name, dependency_key)

----------------------------------------------------------------------------
----------------------------------------------------------------------------
(* Node factories.                                                         *)

\* plain_attribute_factory(attr_name)
PlainAttributeFactory(s, u, attr_name) ==
    SetattrConversion(s, attr_name,
                      Utf8Conversion(AttrConversion(u, attr_name, None)), FALSE)

\* the dependency slots of rpm_unit_solvable_factory, in its order
RpmDependencySlots ==
    <<"requires", "conflicts", "provides", "obsoletes",
      "recommends", "suggests", "supplements", "enhances">>

RECURSIVE DependencyFactories(_, _, _)
RECURSIVE DependencyFactoriesNext(_, _, _)
\* the rpm_dependency_attribute_factory steps of a factory, one after another
DependencyFactories(s, u, slots) ==
    IF slots = <<>> THEN [s |-> s, ok |-> TRUE]
    ELSE DependencyFactoriesNext(RpmDependencyAttributeFactory(s, u, Head(slots), NoKey),
                                 u, Tail(slots))

\* the loop over the factories after one step r: a raise ends it
DependencyFactoriesNext(r, u, slots) ==
    IF ~r.ok THEN r ELSE DependencyFactories(r.s, u, slots)

\* rpm_unit_solvable_factory on the solvable add_solvable() returned: the
\* attribute steps in order ([s, ok]; ok is FALSE when a step raised).  The
\* file list, which no dependency or registry entry reads, is left out.
RpmUnitSolvableFactory(u) ==
    DependencyFactories(
        PlainAttributeFactory(
            PlainAttributeFactory(
                EvrAttribute(PlainAttributeFactory(NewSolvable, u, "name"), u),
                u, "arch"),
            u, "vendor"),
        u, RpmDependencySlots)

\* Solver.type_factory_mapping
TypeFactoryMapping == {"rpm"}

----------------------------------------------------------------------------
(* The pool and the registry.                                              *)

NoRepo == "None"

\* solv.Pool() with no repo.  solvables: the solvables in id order, each
\* [repo, attrs, deps]; repos: per repo name, whether its repodata has been
\* internalized since the last solvable was added; installed: pool.installed;
\* ready: createwhatprovides() has run
EmptyPool ==
    [solvables |-> <<>>,
     repos |-> [n \in {} |-> FALSE],
     installed |-> NoRepo,
     ready |-> FALSE]

\* a dict key: unit.id is a string and solvable.id an int, so the two kinds
\* of key never collide
UnitKey(unit_id) == <<"unit", unit_id>>
SolvableKey(solvable_id) == <<"solvable", solvable_id>>

\* dict.setdefault(key, value)
SetDefault(m, key, value) ==
    IF key \in DOMAIN m THEN m
    ELSE [k \in DOMAIN m \cup {key} |-> IF k = key THEN value ELSE m[k]]

\* m[key] = value
SetItem(m, key, value) ==
    [k \in DOMAIN m \cup {key} |-> IF k = key THEN value ELSE m[k]]

\* _register writing with m[key] = value
RegisterOverwrite(m, unit_id, solvable_id) ==
    SetItem(SetItem(m, UnitKey(unit_id), SolvableKey(solvable_id)),
            SolvableKey(solvable_id), UnitKey(unit_id))

\* _register without the entry from the solvable back to the unit
RegisterUnitOnly(m, unit_id, solvable_id) ==
    SetDefault(m, UnitKey(unit_id), SolvableKey(solvable_id))

\* UnitSolvableMapping._register
Register(m, unit_id, solvable_id) ==
    SetDefault(SetDefault(m, UnitKey(unit_id), SolvableKey(solvable_id)),
               SolvableKey(solvable_id), UnitKey(unit_id))

\* dict.get(key): None when absent
DictGet(m, key) == IF key \in DOMAIN m THEN m[key] ELSE <<"None", 0>>

\* UnitSolvableMapping.get_unit(solvable)
get_unit(solvable_id) == DictGet(mapping, SolvableKey(solvable_id))

\* UnitSolvableMapping.get_solvable(unit)
get_solvable(unit_id) == DictGet(mapping, UnitKey(unit_id))

\* repo.add_solvable() then the factory's steps on it
AddSolvable(p, repo_name, s) ==
    [p EXCEPT !.solvables = Append(@, [repo |-> repo_name,
                                       attrs |-> s.attrs, deps |-> s.deps]),
              !.repos = [n \in DOMAIN @ |-> IF n = repo_name THEN FALSE ELSE @[n]]]

RECURSIVE AddUnits(_, _, _)
RECURSIVE AddUnit(_, _, _, _, _)
\* the for loop of add_repo_units over the units left:
\* st = [pool, mapping, created], the result adds how the loop ended
AddUnits(st, units, repo_name) ==
    IF units = <<>> THEN [st |-> st, outcome |-> "ok"]
    ELSE IF Head(units).type_id \notin TypeFactoryMapping
    THEN [st |-> st, outcome |-> "ValueError"]
    ELSE AddUnit(st, Head(units), Tail(units), repo_name,
                 RpmUnitSolvableFactory(Head(units)))

\* one pass of the loop, r being what the factory did to the solvable it
\* added: when the factory raised the solvable stays, unregistered
AddUnit(st, u, units, repo_name, r) ==
    IF ~r.ok
    THEN [st |-> [st EXCEPT !.pool = AddSolvable(st.pool, repo_name, r.s),
                            !.created = Append(@, [unit |-> u.id, returned |-> FALSE])],
          outcome |-> "raised"]
    ELSE AddUnits([pool |-> AddSolvable(st.pool, repo_name, r.s),
                   mapping |-> Register(st.mapping, u.id, Len(st.pool.solvables) + 1),
                   created |-> Append(st.created, [unit |-> u.id, returned |-> TRUE])],
                  units, repo_name)

\* repos.get(repo_name), or a new repo with its repodata
EnsureRepo(st, repo_name) ==
    IF repo_name \in DOMAIN st.pool.repos THEN st
    ELSE [st EXCEPT !.pool.repos =
             [n \in DOMAIN @ \cup {repo_name} |-> IF n = repo_name THEN FALSE ELSE @[n]]]

\* the end of add_repo_units after its loop r: pool.installed, internalize()
FinishAddRepoUnits(r, repo_name, installed) ==
    IF r.outcome # "ok" THEN r
    ELSE [st |-> [r.st EXCEPT
                    !.pool.installed = IF installed THEN repo_name ELSE @,
                    !.pool.repos = [n \in DOMAIN @ |->
                                       IF n = repo_name THEN TRUE ELSE @[n]]],
          outcome |-> "ok"]

\* UnitSolvableMapping.add_repo_units(units, repo_name, installed)
AddRepoUnitsResult(st, units, repo_name, installed) ==
    FinishAddRepoUnits(AddUnits(EnsureRepo(st, repo_name), units, repo_name),
                       repo_name, installed)

----------------------------------------------------------------------------
(* The units and the calls.                                                *)

\* a dependency record: a dict with name, flags and version
DepRecord(name, flags) ==
    [isdict |-> TRUE,
     attrs |-> [a \in {"name", "flags", "version"} |->
                   IF a = "name" THEN name ELSE IF a = "flags" THEN flags ELSE s1_0]]

\* a unit object with an id, a type and its fields
Unit(id, type_id, name, requires, provides) ==
    [id |-> id, type_id |-> type_id, isdict |-> FALSE,
     attrs |-> [a \in {"name", "version", "release", "requires", "provides"} |->
                   CASE a = "name" -> name
                     [] a = "version" -> s1_0
                     [] a = "release" -> s1
                     [] a = "requires" -> requires
                     [] a = "provides" -> provides]]

\* an rpm whose conversion succeeds
UnitFoo == Unit(1, "rpm", sFoo, <<DepRecord(sBar, fGE)>>, <<DepRecord(sFoo, fEQ)>>)
\* an rpm whose second requirement has flags solv does not know: the factory
\* raises after add_solvable() and the first requirement
UnitBadFlags == Unit(2, "rpm", sBar, <<DepRecord(sFoo, None), DepRecord(sFoo, fXX)>>, <<>>)
\* a unit of a type with no factory
UnitErratum == Unit(3, "erratum", sBar, <<>>, <<>>)

RpmUnits == {UnitFoo, UnitBadFlags}
Units == RpmUnits \cup {UnitErratum}

MaxUnits == 2
MaxSolvables == 2

RECURSIVE SeqsUpTo(_, _)
SeqsUpTo(S, n) ==
    IF n = 0 THEN {<<>>}
    ELSE LET shorter == SeqsUpTo(S, n - 1)
         IN  shorter \cup { Append(q, x) : q \in shorter, x \in S }

RepoNames == {"src", "tgt"}

RECURSIVE UnitIdsOf(_)
UnitIdsOf(units) ==
    IF units = <<>> THEN <<>> ELSE <<Head(units).id>> \o UnitIdsOf(Tail(units))

NoCall == [op |-> "none", outcome |-> "ok", repo |-> NoRepo, units |-> <<>>]

NoStep == [op |-> "init", attr |-> "", key |-> NoKey, ok |-> TRUE]

ConvIdle ==
    /\ unit = UnitErratum
    /\ solvable = NewSolvable
    /\ step = NoStep

NoWalk ==
    [op |-> "none", status |-> "idle", own |-> FALSE, arg |-> 0, seeds |-> <<>>]

WalkIdle ==
    /\ graph = [name |-> <<>>, provides |-> <<>>, requires |-> <<>>]
    /\ cache = {}
    /\ own = {}
    /\ stack = <<>>
    /\ out = <<>>
    /\ bc = [done |-> {}, candq |-> {}]
    /\ call = NoWalk

InitRegistry ==
    /\ pool = EmptyPool
    /\ mapping = [k \in {} |-> <<"None", 0>>]
    /\ created = <<>>
    /\ loaded = FALSE
    /\ target_repo = NoRepo
    /\ db = [n \in RepoNames |-> <<>>]
    /\ last = NoCall

Init == ConvIdle /\ InitRegistry /\ WalkIdle

\* the state after a call that ended as r
Commit(r) ==
    /\ pool' = r.st.pool
    /\ mapping' = r.st.mapping
    /\ created' = r.st.created

State == [pool |-> pool, mapping |-> mapping, created |-> created]

\* mapping.add_repo_units(units, repo_name, installed) and how it ended
AddRepoUnitsCall(r, units, repo_name) ==
    /\ Commit(r)
    /\ last' = [op |-> "add_repo_units", outcome |-> r.outcome,
                repo |-> repo_name, units |-> UnitIdsOf(units)]

\* mapping.add_repo_units(units, repo_name, installed)
AddRepoUnits(units, repo_name, installed) ==
    /\ Len(pool.solvables) + Len(units) <= MaxSolvables
    /\ AddRepoUnitsCall(AddRepoUnitsResult(State, units, repo_name, installed),
                        units, repo_name)
    /\ UNCHANGED <<loaded, target_repo, db, convVars, walkVars>>

Next ==
    \E units \in SeqsUpTo(Units, MaxUnits), repo_name \in RepoNames,
       installed \in BOOLEAN :
        AddRepoUnits(units, repo_name, installed)

Spec == Init /\ [][Next]_vars

\* mapping._register(unit, solvable) called again, on a unit add_repo_units
\* has seen and any solvable of the pool
RegisterCall(unit_id, solvable_id) ==
    /\ mapping' = Register(mapping, unit_id, solvable_id)
    /\ last' = [op |-> "_register", outcome |-> "ok", repo |-> NoRepo, units |-> <<>>]
    /\ UNCHANGED <<pool, created, loaded, target_repo, db, convVars, walkVars>>

NextRegistry ==
    \/ \E units \in SeqsUpTo(Units, MaxUnits), repo_name \in RepoNames,
          installed \in BOOLEAN :
           AddRepoUnits(units, repo_name, installed)
    \/ \E i \in 1..Len(created), solvable_id \in 1..Len(pool.solvables) :
           RegisterCall(created[i].unit, solvable_id)

SpecRegistry == Init /\ [][NextRegistry]_vars

----------------------------------------------------------------------------
(* Solver.load.                                                            *)

InitLoad ==
    /\ ConvIdle
    /\ WalkIdle
    /\ pool = EmptyPool
    /\ mapping = [k \in {} |-> <<"None", 0>>]
    /\ created = <<>>
    /\ loaded = FALSE
    /\ target_repo \in {NoRepo, "tgt"}
    /\ db \in [RepoNames -> SeqsUpTo(RpmUnits, MaxUnits)]
    /\ target_repo = NoRepo => db["tgt"] = <<>>
    /\ last = NoCall

\* the end of load() after its loads r: addfileprovides(), createwhatprovides()
LoadIndex(r) ==
    IF r.outcome # "ok" THEN r
    ELSE [st |-> [r.st EXCEPT !.pool.ready = TRUE], outcome |-> "ok"]

\* load() after the source load r: the target load, if there is a target
LoadTarget(r) ==
    IF r.outcome = "ok" /\ target_repo # NoRepo
    THEN AddRepoUnitsResult(r.st, db[target_repo], target_repo, TRUE)
    ELSE r

\* the body of load() once _loaded is set: [st, outcome]
LoadResult(st) ==
    LoadIndex(LoadTarget(AddRepoUnitsResult(st, db["src"], "src", FALSE)))

\* load() with _loaded unset, ending as r
LoadCall(r) ==
    /\ loaded' = TRUE
    /\ Commit(r)
    /\ last' = [op |-> "load", outcome |-> r.outcome, repo |-> NoRepo, units |-> <<>>]

\* Solver.load()
Load ==
    /\ IF loaded
       THEN /\ UNCHANGED <<pool, mapping, created, loaded>>
            /\ last' = [op |-> "load", outcome |-> "ok", repo |-> NoRepo,
                        units |-> <<>>]
       ELSE LoadCall(LoadResult(State))
    /\ UNCHANGED <<target_repo, db, convVars, walkVars>>

NextLoad == Load

SpecLoad == InitLoad /\ [][NextLoad]_vars

----------------------------------------------------------------------------
(* The closure walks.                                                      *)

NumNodes == 2
NumNames == 1

Nodes == 1..NumNodes
\* dependency ids: the names, and one more that no solvable provides
Deps == 1..(NumNames + 1)

\* the names of the solvables: the first NumNames ids in turn, so that with
\* more solvables than names some share a name
NameOf(i) == ((i - 1) % NumNames) + 1

\* the requires lists a solvable may have: any dependencies, in id order
ReqLists ==
    { q \in SeqsUpTo(Deps, NumNames + 1) : \A i \in 1..(Len(q) - 1) : q[i] < q[i + 1] }

\* the loaded graphs: every solvable provides its own name
Graphs ==
    { [name |-> [i \in Nodes |-> NameOf(i)],
       provides |-> [i \in Nodes |-> {NameOf(i)}],
       requires |-> r] : r \in [Nodes -> ReqLists] }

RECURSIVE InIdOrder(_)
\* the solvables of a set as the pool lists them: by id
InIdOrder(S) ==
    IF S = {} THEN <<>>
    ELSE LET first == CHOOSE x \in S : \A y \in S : x <= y
         IN  <<first>> \o InIdOrder(S \ {first})

\* pool.whatprovides(dep)
WhatProvides(dep) == InIdOrder({ i \in Nodes : dep \in graph.provides[i] })

\* pool.select(name, SELECTION_NAME).solvables()
SelectName(name) == InIdOrder({ i \in Nodes : graph.name[i] = name })

\* solvable.lookup_deparray(solv.SOLVABLE_REQUIRES)
LookupRequires(s) == graph.requires[s]

\* members of the visited set: a Solvable and a Dep never compare equal
SolvableItem(s) == <<"solvable", s>>
DepItem(d) == <<"dep", d>>

Range(q) == { q[i] : i \in 1..Len(q) }

InitWalk ==
    /\ ConvIdle
    /\ InitRegistry
    /\ graph \in Graphs
    /\ cache = {}
    /\ own = {}
    /\ stack = <<>>
    /\ out = <<>>
    /\ bc = [done |-> {}, candq |-> {}]
    /\ call = NoWalk

Frame(solvables, is_own) == [solvables |-> solvables, deps |-> <<>>, own |-> is_own]

\* optimist(pool.whatprovides(pool.Dep(unit))) called from outside: as
\* walk_unit_dependencies calls it for one unit (cache left to its default), or
\* with an empty set of the caller's as cache
StartOptimist(unit_name, is_own) ==
    /\ call.status # "running"
    /\ call' = [op |-> "optimist", status |-> "running", own |-> is_own,
                arg |-> unit_name, seeds |-> WhatProvides(unit_name)]
    /\ stack' = <<Frame(WhatProvides(unit_name), is_own)>>
    /\ out' = <<>>
    /\ own' = {}
    /\ UNCHANGED <<graph, cache, bc, convVars, loadVars>>

\* the set the innermost generator tests and adds to
CacheOf(frame) == IF frame.own THEN own ELSE cache

\* the cache argument of the recursive call: none is passed, so the default
RecursiveCacheIsOwn(frame) == FALSE

Top == stack[Len(stack)]

\* cache.add(item) on the set of the innermost generator
CacheAdd(item) ==
    IF Top.own THEN own' = own \cup {item} /\ UNCHANGED cache
    ELSE cache' = cache \cup {item} /\ UNCHANGED own

\* for solvable in solvables: skip a visited one, else add and yield it
OptimistSolvable ==
    /\ call.op = "optimist" /\ call.status = "running"
    /\ Top.deps = <<>> /\ Top.solvables # <<>>
    /\ LET s == Head(Top.solvables)
           rest == Tail(Top.solvables)
       IN  IF SolvableItem(s) \in CacheOf(Top)
           THEN /\ stack' = [stack EXCEPT ![Len(stack)].solvables = rest]
                /\ UNCHANGED <<cache, own, out>>
           ELSE /\ CacheAdd(SolvableItem(s))
                /\ out' = Append(out, s)
                /\ stack' = [stack EXCEPT ![Len(stack)].solvables = rest,
                                          ![Len(stack)].deps = LookupRequires(s)]
    /\ UNCHANGED <<graph, bc, call, convVars, loadVars>>

\* for dep in the requires: skip a visited one, else add it and recurse into
\* its providers
OptimistDep ==
    /\ call.op = "optimist" /\ call.status = "running"
    /\ Top.deps # <<>>
    /\ LET dep == Head(Top.deps)
           popped == [stack EXCEPT ![Len(stack)].deps = Tail(Top.deps)]
       IN  IF DepItem(dep) \in CacheOf(Top)
           THEN /\ stack' = popped
                /\ UNCHANGED <<cache, own>>
           ELSE /\ CacheAdd(DepItem(dep))
                /\ stack' = Append(popped, Frame(WhatProvides(dep),
                                                 RecursiveCacheIsOwn(Top)))
    /\ UNCHANGED <<graph, out, bc, call, convVars, loadVars>>

\* the innermost generator is exhausted
OptimistReturn ==
    /\ call.op = "optimist" /\ call.status = "running"
    /\ Top.deps = <<>> /\ Top.solvables = <<>>
    /\ stack' = SubSeq(stack, 1, Len(stack) - 1)
    /\ call' = IF Len(stack) = 1 THEN [call EXCEPT !.status = "done"] ELSE call
    /\ UNCHANGED <<graph, cache, own, out, bc, convVars, loadVars>>

\* the first match instead of the last
FirstMatch(solvables) == solvables[1]

\* sel.solvables()[-1]
LastMatch(solvables) == solvables[Len(solvables)]

\* brainchild(name) up to the while loop
BrainchildStart(name) ==
    /\ call.status # "running"
    /\ LET solvables == SelectName(name)
       IN  IF solvables = <<>>
           THEN /\ bc' = [done |-> {}, candq |-> {}]
                /\ call' = [op |-> "brainchild", status |-> "done", own |-> FALSE,
                            arg |-> name, seeds |-> solvables]
           ELSE /\ bc' = [done |-> {}, candq |-> {LastMatch(solvables)}]
                /\ call' = [op |-> "brainchild", status |-> "running", own |-> FALSE,
                            arg |-> name, seeds |-> solvables]
    /\ UNCHANGED <<graph, cache, own, stack, out, convVars, loadVars>>

\* the providers of every requirement of the candidates (candq_n); a
\* requirement nothing provides adds nothing
NextCandidates(candq) ==
    UNION { UNION { Range(WhatProvides(req)) : req \in Range(LookupRequires(cand)) } :
            cand \in candq }

\* the next candidates without done taken away
NextFrontierKeepsDone(candq_n, done) == candq_n

\* candq = candq_n - done
NextFrontier(candq_n, done) == candq_n \ done

\* one pass of the while loop
BrainchildPass ==
    /\ call.op = "brainchild" /\ call.status = "running"
    /\ bc.candq # {}
    /\ LET candq_n == NextCandidates(bc.candq)
           done == bc.done \cup bc.candq
       IN  bc' = [done |-> done, candq |-> NextFrontier(candq_n, done)]
    /\ UNCHANGED <<graph, cache, own, stack, out, call, convVars, loadVars>>

\* the while loop ends: return done
BrainchildReturn ==
    /\ call.op = "brainchild" /\ call.status = "running"
    /\ bc.candq = {}
    /\ call' = [call EXCEPT !.status = "done"]
    /\ UNCHANGED <<graph, cache, own, stack, out, bc, convVars, loadVars>>

WalkStep ==
    \/ OptimistSolvable
    \/ OptimistDep
    \/ OptimistReturn
    \/ BrainchildPass
    \/ BrainchildReturn

NextWalk ==
    \/ \E unit_name \in Deps : StartOptimist(unit_name, FALSE)
    \/ \E unit_name \in Deps : StartOptimist(unit_name, TRUE)
    \/ \E name \in Deps : BrainchildStart(name)
    \/ WalkStep

SpecWalk == InitWalk /\ [][NextWalk]_vars

\* a walk that has started runs on: list() and the while loop do not pause
SpecWalkFair == SpecWalk /\ WF_vars(WalkStep)

----------------------------------------------------------------------------
(* SpecEvr: evr_attribute on every unit shape.                             *)

FieldValues == {None, sEmpty, s0, s1_0, s2}

EvrFields == {"epoch", "version", "release"}

EvrUnits ==
    { [isdict |-> d, attrs |-> f] :
        d \in BOOLEAN,
        f \in UNION { [S -> FieldValues] : S \in SUBSET EvrFields } }

InitEvr ==
    /\ unit \in EvrUnits
    /\ solvable = NewSolvable
    /\ step = NoStep
    /\ InitRegistry
    /\ WalkIdle

ApplyEvrAttribute ==
    /\ step = NoStep
    /\ solvable' = EvrAttribute(solvable, unit)
    /\ step' = [op |-> "evr", attr |-> "evr", key |-> NoKey, ok |-> TRUE]
    /\ UNCHANGED <<unit, loadVars, walkVars>>

NextEvr == ApplyEvrAttribute

SpecEvr == InitEvr /\ [][NextEvr]_vars

----------------------------------------------------------------------------
(* SpecDep: a dependency attribute factory on every list of records.       *)

MaxDeps == 2

DepNames == {sFoo, sRich}
DepFlags == {None, fEQ, fGE, fXX}

DepRecords == { DepRecord(n, f) : n \in DepNames, f \in DepFlags }

DepSlots == {"requires", "provides", "rpm_search_dicts"}
DepKeys == {NoKey, "recommends"}

DepUnits ==
    { [isdict |-> d, attrs |-> [a \in {slot} |-> records]] :
        d \in BOOLEAN, slot \in DepSlots, records \in SeqsUpTo(DepRecords, MaxDeps) }

InitDep ==
    /\ unit \in DepUnits
    /\ solvable = NewSolvable
    /\ step = NoStep
    /\ InitRegistry
    /\ WalkIdle

ApplyDependencyFactory(attribute_name, dependency_key) ==
    /\ step = NoStep
    /\ LET r == RpmDependencyAttributeFactory(solvable, unit, attribute_name,
                                              dependency_key)
       IN  /\ solvable' = r.s
           /\ step' = [op |-> "deps", attr |-> attribute_name,
                       key |-> KeyName(attribute_name, dependency_key)[2],
                       ok |-> r.ok]
    /\ UNCHANGED <<unit, loadVars, walkVars>>

NextDep ==
    \E attribute_name \in DepSlots, dependency_key \in DepKeys :
        ApplyDependencyFactory(attribute_name, dependency_key)

SpecDep == InitDep /\ [][NextDep]_vars

----------------------------------------------------------------------------
(* Claims about the walks.                                                 *)

\* solvable n has a requires edge that solvable p provides
Edge(n, p) ==
    \E i \in DOMAIN graph.requires[n] : graph.requires[n][i] \in graph.provides[p]

RECURSIVE Closure(_)
\* the solvables reachable from S over requires edges and their providers
Closure(S) ==
    LET T == S \cup { p \in Nodes : \E n \in S : Edge(n, p) }
    IN  IF T = S THEN S ELSE Closure(T)

\* C1: a walk that walk_unit_dependencies makes for a unit yields exactly the
\* solvables reachable from its own seeds, whatever walks came before it.
C1_WalkYieldsClosure ==
    (call.op = "optimist" /\ ~call.own /\ call.status = "done")
        => Range(out) = Closure(Range(call.seeds))

\* C5: one outermost optimist call never yields a solvable twice, with the
\* default cache or with a set of the caller's.
C5_NoSolvableTwice ==
    call.op = "optimist" =>
        \A i, j \in 1..Len(out) : i # j => out[i] # out[j]

\* C6: both walks end: a walk that is running leads to the walk being done.
C6_WalksTerminate == (call.status = "running") ~> (call.status = "done")

\* brainchild has ended on a graph where solvables 1 and 2 require each
\* other and solvable 1 has a requirement nothing provides, having collected
\* both, after an optimist walk that yielded both
C6_Witness ==
    /\ call.op = "brainchild" /\ call.status = "done"
    /\ Edge(1, 2) /\ Edge(2, 1)
    /\ (NumNames + 1) \in Range(graph.requires[1])
    /\ {1, 2} \subseteq bc.done
    /\ {1, 2} \subseteq Range(out)

Named(name) == { i \in Nodes : graph.name[i] = name }

\* C7: brainchild(name) returns the empty set when no solvable has the name,
\* and otherwise the solvables reachable from the last solvable of that name.
C7_BrainchildClosure ==
    (call.op = "brainchild" /\ call.status = "done") =>
        bc.done = IF Named(call.arg) = {} THEN {}
                  ELSE Closure({ CHOOSE s \in Named(call.arg) :
                                    \A t \in Named(call.arg) : t <= s })

\* brainchild has returned for a name two solvables have: the last of them,
\* whose one requirement nothing provides, and not the first, which requires
\* the last
C7_Witness ==
    /\ call.op = "brainchild" /\ call.status = "done"
    /\ \E s, t \in Named(call.arg) :
          /\ s < t
          /\ Edge(s, t)
          /\ Range(graph.requires[t]) = {NumNames + 1}
          /\ bc.done = {t}

----------------------------------------------------------------------------
(* Claims about the conversions.                                           *)

\* the unit's field as the claims read it: None when missing
FieldOf(a) == IF a \in DOMAIN unit.attrs THEN unit.attrs[a] ELSE None

EvrWritten == "evr" \in DOMAIN solvable.attrs

\* C8 as stated: with a version present (not None) the evr written is
\* epoch ':' version '-' release, the epoch and ':' left out exactly when the
\* epoch is absent (None) and '-' and the release exactly when the release is
\* absent; with no version no evr is written.
C8_EvrAsStated ==
    step.op = "evr" =>
        IF FieldOf("version") = None THEN ~EvrWritten
        ELSE /\ EvrWritten
             /\ solvable.attrs["evr"] =
                    (IF FieldOf("epoch") = None THEN <<>>
                     ELSE FieldOf("epoch") \o <<58>>)
                    \o FieldOf("version")
                    \o (IF FieldOf("release") = None THEN <<>>
                        ELSE <<45>> \o FieldOf("release"))

Blank(v) == v = None \/ Len(v) = 0

\* C8 amended: with a version that is not None (an empty one included) the
\* evr written is epoch ':' version '-' release, the epoch and ':' left out
\* when the epoch is None or empty and '-' and the release when the release is
\* None or empty; with a None version no evr is written.
C8_EvrOmitsBlank ==
    step.op = "evr" =>
        /\ EvrWritten <=> FieldOf("version") # None
        /\ EvrWritten =>
            LET e == FieldOf("epoch")
                v == FieldOf("version")
                r == FieldOf("release")
                got == solvable.attrs["evr"]
            IN  CASE Blank(e) /\ Blank(r) -> got = v
                  [] Blank(e) /\ ~Blank(r) -> got = v \o <<45>> \o r
                  [] ~Blank(e) /\ Blank(r) -> got = e \o <<58>> \o v
                  [] OTHER -> got = e \o <<58>> \o v \o <<45>> \o r

\* evr_attribute has run on a unit with epoch '2', version '1.0' and an empty
\* release, and wrote '2:1.0'
C8_Witness ==
    /\ step.op = "evr"
    /\ FieldOf("epoch") = s2 /\ FieldOf("version") = s1_0 /\ FieldOf("release") = sEmpty
    /\ EvrWritten /\ solvable.attrs["evr"] = <<50, 58, 49, 46, 48>>

EdgeCount(key) == IF key \in DOMAIN solvable.deps THEN Len(solvable.deps[key]) ELSE 0

\* C3: when a dependency attribute factory has run over a slot without
\* raising, the solvable has one edge under the slot's key (or the override
\* key) per record of the slot, rich or generic.
C3_OneEdgePerRecord ==
    (step.op = "deps" /\ step.ok) =>
        EdgeCount(step.key) = Len(AttrConversion(unit, step.attr, <<>>))

----------------------------------------------------------------------------
(* Claims about the registry and the load.                                 *)

UnitIds == { u.id : u \in Units }
NoEntry == <<"None", 0>>

\* C2: a call of add_repo_units that raises for a unit type with no factory
\* leaves the pool's solvables and the registry as they were before the call.
C2_UnknownTypeLeavesNothing ==
    [][(last'.op = "add_repo_units" /\ last'.outcome = "ValueError")
          => (pool'.solvables = pool.solvables /\ mapping' = mapping)]_vars

\* C4: an identity that has an entry keeps it: no step, a later _register
\* with the same or another partner included, changes or removes what
\* get_solvable or get_unit answer for it.
C4_FirstWriteWins ==
    [][/\ \A u \in UnitIds :
            get_solvable(u) # NoEntry => get_solvable(u)' = get_solvable(u)
       /\ \A s \in 1..Len(pool.solvables) :
            get_unit(s) # NoEntry => get_unit(s)' = get_unit(s)]_vars

\* _register has been called again on a unit that two solvables were made
\* from, and the unit still answers with the first of them
C4_Witness ==
    /\ last.op = "_register"
    /\ \E i, j \in 1..Len(created) :
          /\ i < j
          /\ created[i].unit = created[j].unit
          /\ created[i].returned /\ created[j].returned
          /\ get_solvable(created[i].unit) = SolvableKey(i)

Returned == { s \in 1..Len(created) : created[s].returned }

\* C9 as stated: every solvable a factory returned for unit u answers
\* get_unit with u, and u answers get_solvable with that solvable.
C9_RoundTrip ==
    \A s \in Returned :
        /\ get_unit(s) = UnitKey(created[s].unit)
        /\ get_solvable(created[s].unit) = SolvableKey(s)

FirstOf(unit_id) ==
    CHOOSE s \in Returned :
        /\ created[s].unit = unit_id
        /\ \A t \in Returned : created[t].unit = unit_id => s <= t

\* C9 amended: every solvable a factory returned for unit u answers get_unit
\* with u, and u answers get_solvable with the first solvable returned for
\* its identity; the round trip holds for that first solvable only.
C9_FirstSolvableWins ==
    \A s \in Returned :
        /\ get_unit(s) = UnitKey(created[s].unit)
        /\ get_solvable(created[s].unit) = SolvableKey(FirstOf(created[s].unit))

\* one unit has been loaded into both graphs
C9_Witness ==
    \E i, j \in Returned :
        /\ i < j
        /\ created[i].unit = created[j].unit
        /\ pool.solvables[i].repo = "src" /\ pool.solvables[j].repo = "tgt"
        /\ get_unit(j) = UnitKey(created[j].unit)

RECURSIVE LoadedInto(_, _)
\* the unit ids of the solvables of a repo among the first n, in order
LoadedInto(repo_name, n) ==
    IF n = 0 THEN <<>>
    ELSE LoadedInto(repo_name, n - 1)
         \o (IF pool.solvables[n].repo = repo_name THEN <<created[n].unit>> ELSE <<>>)

\* the repo holds one solvable per unit of the repository, each completed,
\* and its repodata is internalized
FullyLoadedOnce(repo_name) ==
    /\ repo_name \in DOMAIN pool.repos
    /\ pool.repos[repo_name]
    /\ LoadedInto(repo_name, Len(pool.solvables)) = UnitIdsOf(db[repo_name])
    /\ \A s \in 1..Len(created) : created[s].returned

\* C10: when a load() call has returned normally the source graph (and the
\* target graph, as the installed one, when configured) is fully loaded
\* exactly once and the provider index is built.
C10_LoadReturnsLoaded ==
    (last.op = "load" /\ last.outcome = "ok") =>
        /\ pool.ready
        /\ FullyLoadedOnce("src")
        /\ target_repo # NoRepo =>
              FullyLoadedOnce(target_repo) /\ pool.installed = target_repo

====
